---- MODULE Spec2Model ----
(***************************************************************************)
(* A model of fts.py: the text normalisation pipeline (tokenizer,          *)
(* filter_stopwords, analyze), the inverted index built by                 *)
(* index_documents, the lookup done by search, and the command shell       *)
(* FTSShell that drives them.                                              *)
(*                                                                         *)
(* A text is a sequence of one-character strings.  A value that may be     *)
(* None is a record [none, s].  The two module globals of fts.py, index    *)
(* and stopwords, are variables; a function that reads or writes them is   *)
(* an operator from the globals before the call to a record holding its    *)
(* return value and the globals after the call.                            *)
(***************************************************************************)
EXTENDS Integers, Sequences, FiniteSets, TLC

VARIABLES
  index,          \* global index: token -> posting list         (fts.py:143)
  stopwords,      \* global stopwords: the cached stopword set   (fts.py:144)
  stopfile,       \* the words of stopwords.txt                  (fts.py:59-60)
  corpus,         \* the abstracts of the <doc> elements of the data file
  data,           \* FTSShell.data / self.data                   (fts.py:97, 109)
  docs_iterator,  \* self.docs_iterator                          (fts.py:111)
  docs,           \* self.docs                                   (fts.py:115)
  running,        \* the command loop is still running           (fts.py:145)
  indexed,        \* number of documents handed to index_documents so far
  prevIndex,      \* the index as it was before the last operation
  last            \* the last operation: its arguments and what it returned

vars == <<index, stopwords, stopfile, corpus, data, docs_iterator, docs,
          running, indexed, prevIndex, last>>

shellVars == <<corpus, data, docs_iterator, docs, running>>

-----------------------------------------------------------------------------
(* Bounds *)

MaxTextLen == 3
MaxDocs == 2
MaxIndexed == 4

-----------------------------------------------------------------------------
(* Texts *)

WordChars == {"a", "s", "A"}

Alphabet == WordChars \cup {"'", " "}

None == [none |-> TRUE, s |-> <<>>]

Str(t) == [none |-> FALSE, s |-> t]

Texts == UNION {[1..n -> Alphabet] : n \in 0..MaxTextLen}

Range(f) == {f[k] : k \in DOMAIN f}

Max(S) == CHOOSE m \in S : \A n \in S : n <= m

EmptyIndex == [x \in {} |-> <<>>]

-----------------------------------------------------------------------------
(* The normalisation pipeline *)

IsWord(c) == c \in WordChars

IsWordOrApos(c) == c \in WordChars \cup {"'"}

\* Where the match of \w[\w']*\w|\w that starts at i ends: the greedy
\* [\w']* backs off to the last word character of the run, and the second
\* alternative matches the single character at i.
MatchEnd(text, i) ==
  LET ends == {j \in (i + 1)..Len(text) :
                 /\ IsWord(text[j])
                 /\ \A k \in (i + 1)..(j - 1) : IsWordOrApos(text[k])}
  IN  IF ends = {} THEN i ELSE Max(ends)

RECURSIVE findall(_, _)
findall(text, i) ==
  IF i > Len(text) THEN <<>>
  ELSE IF ~IsWord(text[i]) THEN findall(text, i + 1)
  ELSE LET j == MatchEnd(text, i)
       IN  <<SubSeq(text, i, j)>> \o findall(text, j + 1)

tokenizer(text) == findall(text, 1)

lower(token) == [k \in 1..Len(token) |-> IF token[k] = "A" THEN "a" ELSE token[k]]

\* A faulty variant: the filter keeps every token.
filter_stopwords_keep_all(tokens, sw) ==
  [ret |-> tokens, stopwords |-> IF sw = {} THEN stopfile ELSE sw]

filter_stopwords(tokens, sw) ==
  LET loaded == IF sw = {} THEN stopfile ELSE sw
      Keep(w) == w \notin loaded
  IN  [ret |-> SelectSeq(tokens, Keep), stopwords |-> loaded]

\* PorterStemmer.stem on the words of the model's alphabet: words of one or
\* two characters are returned as they are, and of the algorithm's steps
\* only step 1a (ss -> ss, s -> "") has a suffix over these characters.
stem(w) ==
  IF Len(w) <= 2 THEN w
  ELSE IF w[Len(w)] = "s" /\ w[Len(w) - 1] # "s" THEN SubSeq(w, 1, Len(w) - 1)
  ELSE w

analyze(text, sw) ==
  IF text.none \/ Len(text.s) = 0 THEN [ret |-> <<>>, stopwords |-> sw]
  ELSE LET raw == tokenizer(text.s)
           f == filter_stopwords([k \in 1..Len(raw) |-> lower(raw[k])], sw)
       IN  [ret |-> [k \in 1..Len(f.ret) |-> stem(f.ret[k])],
            stopwords |-> f.stopwords]

-----------------------------------------------------------------------------
(* Specification of analyze alone: every text over the alphabet. *)

StopCandidates == {<<"s">>, <<"a", "a">>}

StopFiles == {{}, StopCandidates}

NoOp == [op |-> "none", text |-> None, docs |-> <<>>, ret |-> <<>>,
         repeat |-> FALSE, raised |-> "none", handled |-> FALSE,
         result |-> {}]

ShellStart ==
  /\ corpus = <<>>
  /\ data = "FTSShell.data"
  /\ docs_iterator = [set |-> FALSE, rest |-> <<>>]
  /\ docs = [set |-> FALSE, map |-> <<>>]
  /\ running = TRUE

Globals ==
  /\ index = EmptyIndex
  /\ stopwords = {}
  /\ stopfile \in StopFiles
  /\ indexed = 0
  /\ prevIndex = EmptyIndex
  /\ last = NoOp

AnalyzeInit == Globals /\ ShellStart

Analyze(t) ==
  LET a == analyze(t, stopwords)
  IN  /\ stopwords' = a.stopwords
      /\ prevIndex' = index
      /\ last' = [NoOp EXCEPT !.op = "analyze", !.text = t, !.ret = a.ret]
      /\ UNCHANGED <<index, stopfile, indexed>>
      /\ UNCHANGED shellVars

AnalyzeNext == \E t \in {None} \cup {Str(s) : s \in Texts} : Analyze(t)

AnalyzeSpec == AnalyzeInit /\ [][AnalyzeNext]_vars

-----------------------------------------------------------------------------
(* The index engine *)

\* A faulty variant: the identifier is appended whatever the last entry is.
add_posting_always(idx, token, doc_id) ==
  [index |-> [x \in DOMAIN idx \cup {token} |->
                IF x = token
                  THEN (IF token \in DOMAIN idx THEN idx[token] ELSE <<>>)
                         \o <<doc_id>>
                  ELSE idx[x]],
   raised |-> "none"]

\* A faulty variant: a token that is already a key is never appended to.
add_posting_once_per_token(idx, token, doc_id) ==
  IF token \in DOMAIN idx THEN [index |-> idx, raised |-> "none"]
  ELSE [index |-> [x \in DOMAIN idx \cup {token} |->
                     IF x = token THEN <<doc_id>> ELSE idx[x]],
        raised |-> "none"]

\* A faulty variant: the key is created first and the emptiness test of the
\* duplicate check is inverted, so a new token is left with an empty list.
add_posting_key_first(idx, token, doc_id) ==
  LET withKey == [x \in DOMAIN idx \cup {token} |->
                    IF x \in DOMAIN idx THEN idx[x] ELSE <<>>]
  IN  IF withKey[token] = <<>>
         \/ withKey[token][Len(withKey[token])] = doc_id
        THEN [index |-> withKey, raised |-> "none"]
        ELSE [index |-> [withKey EXCEPT ![token] = @ \o <<doc_id>>],
              raised |-> "none"]

\* The body of the inner loop of index_documents: the duplicate test and
\* the append.  index[token][-1] raises IndexError on an empty list.
add_posting(idx, token, doc_id) ==
  IF token \in DOMAIN idx /\ idx[token] = <<>>
    THEN [index |-> idx, raised |-> "IndexError"]
  ELSE IF token \in DOMAIN idx /\ idx[token][Len(idx[token])] = doc_id
    THEN [index |-> idx, raised |-> "none"]
  ELSE [index |-> [x \in DOMAIN idx \cup {token} |->
                     IF x = token
                       THEN (IF token \in DOMAIN idx THEN idx[token] ELSE <<>>)
                              \o <<doc_id>>
                       ELSE idx[x]],
        raised |-> "none"]

\* for token in analyze(doc.abstract): ...
RECURSIVE index_tokens(_, _, _)
index_tokens(tokens, doc_id, st) ==
  IF tokens = <<>> \/ st.raised # "none" THEN st
  ELSE index_tokens(Tail(tokens), doc_id,
                    add_posting(st.index, Head(tokens), doc_id))

\* for doc in docs: ...
RECURSIVE index_loop(_, _)
index_loop(ds, st) ==
  IF ds = <<>> \/ st.raised # "none" THEN st
  ELSE LET doc == Head(ds)
           a == analyze(doc.abstract, st.stopwords)
           t == index_tokens(a.ret, doc.doc_id,
                             [index |-> st.index, raised |-> "none"])
       IN  index_loop(Tail(ds), [index |-> t.index,
                                 stopwords |-> a.stopwords,
                                 raised |-> t.raised])

index_documents(ds, idx, sw) ==
  index_loop(ds, [index |-> idx, stopwords |-> sw, raised |-> "none"])

\* A faulty variant: a query token that is not in the index contributes an empty
\* set instead of being skipped.
search_no_skip(term, idx, sw) ==
  LET a == analyze(term, sw)
  IN  [ret |-> [k \in 1..Len(a.ret) |->
                  IF a.ret[k] \in DOMAIN idx THEN Range(idx[a.ret[k]]) ELSE {}],
       index |-> idx,
       stopwords |-> a.stopwords]

\* A faulty variant: the lookup is index.setdefault(token, []), which makes every
\* query token a key.
search_setdefault(term, idx, sw) ==
  LET a == analyze(term, sw)
      grown == [x \in DOMAIN idx \cup Range(a.ret) |->
                  IF x \in DOMAIN idx THEN idx[x] ELSE <<>>]
      found == a.ret
  IN  [ret |-> [k \in 1..Len(found) |-> Range(grown[found[k]])],
       index |-> grown,
       stopwords |-> a.stopwords]

search(term, idx, sw) ==
  LET a == analyze(term, sw)
      InIndex(token) == token \in DOMAIN idx
      found == SelectSeq(a.ret, InIndex)
  IN  [ret |-> [k \in 1..Len(found) |-> Range(idx[found[k]])],
       index |-> idx,
       stopwords |-> a.stopwords]

\* set.intersection(*sets): the unbound method needs its first argument.
RECURSIVE intersection(_)
intersection(sets) ==
  IF sets = <<>> THEN [raised |-> "TypeError", ret |-> {}]
  ELSE IF Len(sets) = 1 THEN [raised |-> "none", ret |-> sets[1]]
  ELSE [raised |-> "none", ret |-> sets[1] \cap intersection(Tail(sets)).ret]

-----------------------------------------------------------------------------
(* Specification of the two entry points, index_documents and search,      *)
(* called in any order on any collection and any query.                    *)

DocIds == {1, 2}

\* "a s a" (a token repeated around another one) and "A aas" (a body that
\* shares one token with "a s a").
Abstracts ==
  {Str(<<"a", " ", "s", " ", "a">>),
   Str(<<"A", " ", "a", "a", "s">>)}

\* Documents with a body under either identifier, a document whose abstract
\* element has no text, and a document with an empty abstract.
Documents ==
  [doc_id : DocIds, abstract : Abstracts]
    \cup {[doc_id |-> 1, abstract |-> None],
          [doc_id |-> 2, abstract |-> Str(<<>>)]}

Collections(k) == UNION {[1..n -> Documents] : n \in 0..k}

\* "", "a a", "a as", "aas A" and "as".
Queries ==
  {Str(<<>>),
   Str(<<"a", " ", "a">>),
   Str(<<"a", " ", "a", "s">>),
   Str(<<"a", "a", "s", " ", "A">>),
   Str(<<"a", "s">>)}

Init == Globals /\ ShellStart

IndexDocuments(ds) ==
  /\ indexed + Len(ds) <= MaxIndexed
  /\ LET r == index_documents(ds, index, stopwords)
     IN  /\ index' = r.index
         /\ stopwords' = r.stopwords
         /\ last' = [NoOp EXCEPT !.op = "index_documents", !.docs = ds,
                                 !.repeat = (last.op = "index_documents"
                                             /\ last.docs = ds),
                                 !.raised = r.raised]
  /\ indexed' = indexed + Len(ds)
  /\ prevIndex' = index
  /\ UNCHANGED stopfile
  /\ UNCHANGED shellVars

Search(term) ==
  /\ LET r == search(term, index, stopwords)
     IN  /\ index' = r.index
         /\ stopwords' = r.stopwords
         /\ last' = [NoOp EXCEPT !.op = "search", !.text = term, !.ret = r.ret]
  /\ prevIndex' = index
  /\ UNCHANGED <<stopfile, indexed>>
  /\ UNCHANGED shellVars

Next ==
  \/ \E ds \in Collections(MaxDocs) : IndexDocuments(ds)
  \/ \E term \in Queries : Search(term)

Spec == Init /\ [][Next]_vars

-----------------------------------------------------------------------------
(* Specification of the command shell: FTSShell().cmdloop() reading the    *)
(* commands data, load, index, search and EOF in any order.  An exception  *)
(* that no handler catches leaves cmdloop and ends the program.            *)

DataSets == {"wikipedia"}

Corpora ==
  UNION {[1..n -> Abstracts \cup {None, Str(<<>>)}] : n \in 0..MaxDocs}

\* The documents the generator yields: doc_id counts the <doc> elements.
load_documents(file) ==
  [k \in 1..Len(file) |-> [doc_id |-> k, abstract |-> file[k]]]

ShellInit ==
  /\ Globals
  /\ corpus \in Corpora
  /\ data = "FTSShell.data"
  /\ docs_iterator = [set |-> FALSE, rest |-> <<>>]
  /\ docs = [set |-> FALSE, map |-> <<>>]
  /\ running = TRUE

\* print(data): no local or global of that name exists.
do_data ==
  /\ running
  /\ running' = FALSE
  /\ prevIndex' = index
  /\ last' = [NoOp EXCEPT !.op = "do_data", !.raised = "NameError"]
  /\ UNCHANGED <<index, stopwords, stopfile, indexed>>
  /\ UNCHANGED <<corpus, data, docs_iterator, docs>>

do_load(arg) ==
  /\ running
  /\ IF arg \notin DataSets
       THEN /\ last' = [NoOp EXCEPT !.op = "do_load", !.handled = TRUE]
            /\ UNCHANGED <<data, docs_iterator>>
       ELSE /\ data' = "enwiki-latest-abstract1.xml.gz"
            /\ docs_iterator' = [set |-> TRUE, rest |-> load_documents(corpus)]
            /\ last' = [NoOp EXCEPT !.op = "do_load"]
  /\ prevIndex' = index
  /\ UNCHANGED <<index, stopwords, stopfile, indexed>>
  /\ UNCHANGED <<corpus, docs, running>>

\* self.docs is reset before the iterator is read; the generator, once
\* consumed, yields nothing more.
do_index ==
  /\ running
  /\ indexed + Len(docs_iterator.rest) <= MaxIndexed
  /\ IF ~docs_iterator.set
       THEN /\ docs' = [set |-> TRUE, map |-> <<>>]
            /\ running' = FALSE
            /\ last' = [NoOp EXCEPT !.op = "do_index", !.raised = "AttributeError"]
            /\ UNCHANGED <<index, stopwords, indexed, docs_iterator>>
       ELSE LET ds == docs_iterator.rest
                r == index_documents(ds, index, stopwords)
            IN  /\ docs' = [set |-> TRUE,
                            map |-> [i \in {ds[k].doc_id : k \in DOMAIN ds} |->
                                       CHOOSE d \in Range(ds) : d.doc_id = i]]
                /\ docs_iterator' = [set |-> TRUE, rest |-> <<>>]
                /\ index' = r.index
                /\ stopwords' = r.stopwords
                /\ indexed' = indexed + Len(ds)
                /\ running' = (r.raised = "none")
                /\ last' = [NoOp EXCEPT !.op = "do_index", !.docs = ds,
                                        !.raised = r.raised]
  /\ prevIndex' = index
  /\ UNCHANGED <<stopfile, corpus, data>>

\* The try block of do_search; only AttributeError has a handler.
do_search(arg) ==
  /\ running
  /\ LET r == search(arg, index, stopwords)
         inter == intersection(r.ret)
         raised == IF inter.raised # "none" THEN inter.raised
                   ELSE IF inter.ret = {} THEN "none"
                   ELSE IF ~docs.set THEN "AttributeError"
                   ELSE IF ~(inter.ret \subseteq DOMAIN docs.map) THEN "KeyError"
                   ELSE "none"
     IN  /\ index' = r.index
         /\ stopwords' = r.stopwords
         /\ running' = (raised \in {"none", "AttributeError"})
         /\ last' = [NoOp EXCEPT !.op = "do_search", !.text = arg,
                                 !.ret = r.ret, !.result = inter.ret,
                                 !.raised = raised,
                                 !.handled = (raised = "AttributeError")]
  /\ prevIndex' = index
  /\ UNCHANGED <<stopfile, indexed>>
  /\ UNCHANGED <<corpus, data, docs_iterator, docs>>

do_EOF ==
  /\ running
  /\ running' = FALSE
  /\ prevIndex' = index
  /\ last' = [NoOp EXCEPT !.op = "do_EOF"]
  /\ UNCHANGED <<index, stopwords, stopfile, indexed>>
  /\ UNCHANGED <<corpus, data, docs_iterator, docs>>

emptyline ==
  /\ running
  /\ prevIndex' = index
  /\ last' = [NoOp EXCEPT !.op = "emptyline"]
  /\ UNCHANGED <<index, stopwords, stopfile, indexed>>
  /\ UNCHANGED shellVars

ShellNext ==
  \/ do_data
  \/ \E arg \in DataSets \cup {"other"} : do_load(arg)
  \/ do_index
  \/ \E arg \in Queries : do_search(arg)
  \/ do_EOF
  \/ emptyline

ShellSpec == ShellInit /\ [][ShellNext]_vars

-----------------------------------------------------------------------------
(* What the claims are stated with *)

\* The tokens analyze returns for a text under the stopword file.
Tok(text) == analyze(text, stopwords).ret

DistinctIds(ds) ==
  \A i, j \in DOMAIN ds : i # j => ds[i].doc_id # ds[j].doc_id

Occurrences(list, d) == Cardinality({k \in DOMAIN list : list[k] = d})

Postings(x) == IF x \in DOMAIN index THEN Range(index[x]) ELSE {}

DocTokens(ds) == UNION {Range(Tok(ds[i].abstract)) : i \in DOMAIN ds}

\* The identifiers of the documents of ds that contain x, in iteration order.
RECURSIVE IdsContaining(_, _)
IdsContaining(ds, x) ==
  IF ds = <<>> THEN <<>>
  ELSE (IF x \in Range(Tok(Head(ds).abstract)) THEN <<Head(ds).doc_id>> ELSE <<>>)
         \o IdsContaining(Tail(ds), x)

\* A sequence with every run of equal entries reduced to one entry.
RECURSIVE Collapse(_)
Collapse(seq) ==
  IF Len(seq) <= 1 THEN seq
  ELSE IF seq[1] = seq[2] THEN Collapse(Tail(seq))
  ELSE <<seq[1]>> \o Collapse(Tail(seq))

OnePassFromEmpty ==
  /\ last.op = "index_documents"
  /\ prevIndex = EmptyIndex
  /\ DistinctIds(last.docs)

-----------------------------------------------------------------------------
(* Claims about index_documents and search *)

\* C1: after one index_documents pass from the empty index over documents
\* with pairwise distinct identifiers, no posting list holds the identifier
\* of a document more than once.
C1_AtMostOncePerDocument ==
  OnePassFromEmpty =>
    \A x \in DOMAIN index : \A i \in DOMAIN last.docs :
      Occurrences(index[x], last.docs[i].doc_id) <= 1

\* A document whose analyzed body is x, y, x was indexed next to a second
\* document, and x's posting list names it.
C1_Witness ==
  /\ OnePassFromEmpty
  /\ Len(last.docs) >= 2
  /\ \E i \in DOMAIN last.docs :
       LET t == Tok(last.docs[i].abstract)
       IN  /\ Len(t) = 3
           /\ t[1] = t[3]
           /\ t[1] # t[2]
           /\ last.docs[i].doc_id \in Postings(t[1])

\* C2: after one pass from the empty index over documents with distinct
\* identifiers, d.doc_id is in x's posting list exactly when x is in
\* analyze(d.abstract), and the keys of the index are exactly the tokens of
\* the documents.
C2_PostingsIffTokenOccurs ==
  OnePassFromEmpty =>
    /\ DOMAIN index = DocTokens(last.docs)
    /\ \A i \in DOMAIN last.docs : \A x \in DOMAIN index \cup DocTokens(last.docs) :
         (last.docs[i].doc_id \in Postings(x))
           <=> (x \in Range(Tok(last.docs[i].abstract)))

\* Two documents with distinct identifiers share a token, and its posting
\* list names both.
C2_Witness ==
  /\ OnePassFromEmpty
  /\ \E i, j \in DOMAIN last.docs : \E x \in DOMAIN index :
       /\ i # j
       /\ x \in Range(Tok(last.docs[i].abstract))
       /\ x \in Range(Tok(last.docs[j].abstract))
       /\ {last.docs[i].doc_id, last.docs[j].doc_id} \subseteq Postings(x)

\* C3: when a query has a token that is a key of the index, the
\* intersection of the sets search returns is the set of identifiers that
\* are in the posting list of every query token that is a key; tokens that
\* are not keys are skipped.
C3_IntersectionOfIndexedTerms ==
  (last.op = "search" /\ Range(Tok(last.text)) \cap DOMAIN index # {}) =>
    /\ last.ret # <<>>
    /\ intersection(last.ret).raised = "none"
    /\ intersection(last.ret).ret =
         {d \in UNION {Postings(x) : x \in DOMAIN index} :
            \A x \in Range(Tok(last.text)) \cap DOMAIN index : d \in Postings(x)}

\* A query with an indexed token and a token that is not in the index
\* resolved to the postings of the indexed token.
C3_Witness ==
  /\ last.op = "search"
  /\ \E x, y \in Range(Tok(last.text)) :
       /\ x \in DOMAIN index
       /\ y \notin DOMAIN index
       /\ Len(last.ret) = 1
       /\ intersection(last.ret).ret = Postings(x)
       /\ Postings(x) # {}

\* C5 as stated: a second pass over the same collection, when the
\* collection yields a posting, changes the index and appends the identifier
\* of every document once more to the posting list of each of its tokens.
C5_SecondPassReappendsAll ==
  (last.op = "index_documents" /\ last.repeat /\ DistinctIds(last.docs)
     /\ DocTokens(last.docs) # {}) =>
    /\ index # prevIndex
    /\ \A i \in DOMAIN last.docs : \A x \in Range(Tok(last.docs[i].abstract)) :
         Occurrences(index[x], last.docs[i].doc_id)
           = Occurrences(prevIndex[x], last.docs[i].doc_id) + 1

\* C5 amended: a second pass over the same collection appends to a token's
\* posting list the identifiers of the documents that contain the token, in
\* iteration order, except that the first of them is not appended when it
\* is also the last; with distinct identifiers a token of two or more
\* documents has them all appended again and a token of one document keeps
\* its list.
C5_SecondPassReappendsSharedTokens ==
  (last.op = "index_documents" /\ last.repeat) =>
    /\ DOMAIN index = DOMAIN prevIndex
    /\ \A x \in DOMAIN index :
         LET ids == Collapse(IdsContaining(last.docs, x))
         IN  /\ index[x] = prevIndex[x] \o
                  (IF ids # <<>> /\ ids[1] = ids[Len(ids)] THEN Tail(ids) ELSE ids)
             /\ DistinctIds(last.docs) =>
                  index[x] = IF Len(ids) >= 2 THEN prevIndex[x] \o ids
                             ELSE prevIndex[x]

\* The second pass over a collection doubled the list of a token of two
\* documents and left the list of a token of one document as it was.
C5_Witness ==
  /\ last.op = "index_documents"
  /\ last.repeat
  /\ DistinctIds(last.docs)
  /\ \E x, y \in DOMAIN index :
       /\ Len(prevIndex[x]) = 2
       /\ index[x] = prevIndex[x] \o prevIndex[x]
       /\ Len(prevIndex[y]) = 1
       /\ index[y] = prevIndex[y]

\* C7: search leaves the index as it was: the same keys and the same
\* posting lists.
C7_SearchLeavesIndexUnchanged ==
  last.op = "search" => index = prevIndex

\* A search on a populated index, with a query token that is a key and one
\* that is not, has returned.
C7_Witness ==
  /\ last.op = "search"
  /\ index # EmptyIndex
  /\ last.ret # <<>>
  /\ Range(Tok(last.text)) \ DOMAIN index # {}

\* C8: no posting list holds two adjacent equal identifiers.
C8_NoAdjacentEqualIds ==
  \A x \in DOMAIN index : \A k \in 1..(Len(index[x]) - 1) :
    index[x][k] # index[x][k + 1]

\* Two documents of one collection carry the same identifier and share a
\* token, and a second pass over that collection has run.
C8_Witness ==
  /\ last.op = "index_documents"
  /\ last.repeat
  /\ \E i, j \in DOMAIN last.docs : \E x \in DOMAIN index :
       /\ i # j
       /\ last.docs[i].doc_id = last.docs[j].doc_id
       /\ x \in Range(Tok(last.docs[i].abstract))
       /\ x \in Range(Tok(last.docs[j].abstract))
       /\ index[x] = <<last.docs[i].doc_id>>

\* C10: every key of the index maps to a non-empty posting list, the read
\* of the last entry in index_documents never raises, and a pass over
\* documents whose bodies are empty or None leaves the index as it was.
C10_PostingListsNonEmpty ==
  /\ \A x \in DOMAIN index : index[x] # <<>>
  /\ last.raised = "none"
  /\ (last.op = "index_documents"
        /\ \A i \in DOMAIN last.docs :
             last.docs[i].abstract.none \/ last.docs[i].abstract.s = <<>>)
       => index = prevIndex

\* A second pass, over a document with no body and a document with a body,
\* met tokens that were already keys.
C10_Witness ==
  /\ last.op = "index_documents"
  /\ prevIndex # EmptyIndex
  /\ \E i, j \in DOMAIN last.docs :
       /\ last.docs[i].abstract.none
       /\ Range(Tok(last.docs[j].abstract)) \cap DOMAIN prevIndex # {}

-----------------------------------------------------------------------------
(* Claims about analyze *)

\* The lowercased tokens of a text, before the stopword filter.
Lowered(text) ==
  IF text.none THEN {} ELSE {lower(w) : w \in Range(tokenizer(text.s))}

\* C6 as stated: no token analyze returns is in the stopword set.
C6_NoStopwordReturned ==
  last.op = "analyze" => \A k \in DOMAIN last.ret : last.ret[k] \notin stopfile

\* C6 amended: every token analyze returns is the stem of a lowercased
\* token of the text that is not in the stopword set.
C6_ReturnsStemsOfNonStopwords ==
  last.op = "analyze" =>
    \A k \in DOMAIN last.ret :
      \E w \in Lowered(last.text) : w \notin stopfile /\ last.ret[k] = stem(w)

\* analyze returned a member of the stopword set: the stem of a token of
\* the text that is not in the set.
C6_Witness ==
  /\ last.op = "analyze"
  /\ \E k \in DOMAIN last.ret :
       /\ last.ret[k] \in stopfile
       /\ last.ret[k] \notin Lowered(last.text)

-----------------------------------------------------------------------------
(* Claims about the shell *)

\* C4: when search returns an empty sequence, resolving it fails with an
\* error that do_search turns into a message for the user; the shell does
\* not end on an unhandled exception.
C4_EmptyResultIsReported ==
  (last.op = "do_search" /\ last.ret = <<>>) =>
    /\ last.raised # "none"
    /\ last.handled
    /\ running

\* C9: every identifier in the intersection do_search computes is a key of
\* self.docs, so the display loop never looks up a missing document.
C9_ResultsAreKeysOfDocs ==
  (last.op = "do_search" /\ last.ret # <<>>) =>
    /\ last.raised # "KeyError"
    /\ \A d \in last.result : docs.set /\ d \in DOMAIN docs.map

====
